---- MODULE Spec2Model ----
(***************************************************************************)
(* Model of bevy-intl (src/src/lib.rs): the I18n resource (translations,   *)
(* current_lang, fallback_lang, locale_folders_list), the I18nPartial view *)
(* built by I18n::translation, and the text helpers of I18nPartial.        *)
(*                                                                         *)
(* A Rust String is modelled as a sequence of one-character strings, so    *)
(* that ARG_RE.split and the rebuild loops work on characters.             *)
(***************************************************************************)
EXTENDS Integers, Sequences, FiniteSets, TLC

VARIABLES translations, current_lang, fallback_lang, locale_folders_list,
          partial, op

vars == <<translations, current_lang, fallback_lang, locale_folders_list,
          partial, op>>

(***************************************************************************)
(* Bounds of the model.                                                    *)
(***************************************************************************)
\* longest argument list handed to t_with_arg / t_with_gender_and_arg
MaxArgs == 2
\* counts 0..MaxCount (and 1000) are handed to t_with_plurial
MaxCount == 2
\* translation strings of the string catalogs are built from at most
\* MaxChunks chunks
MaxChunks == 2

(***************************************************************************)
(* Strings.                                                                *)
(***************************************************************************)
\* "Error missing text", lib.rs:315, 349, 390
ErrorMissingText ==
    <<"E","r","r","o","r"," ","m","i","s","s","i","n","g"," ","t","e","x","t">>

\* "error", the key and the text of the synthetic section, lib.rs:71, 251
ErrorText == <<"e","r","r","o","r">>

Digits == <<"0","1","2","3","4","5","6","7","8","9">>

\* the characters of the model that the regex class \w matches
WordChars ==
    {"a","b","c","d","e","f","g","h","i","j","k","l","m","n","o","p","q","r",
     "s","t","u","v","w","x","y","z","E","H","M","S","X","Y","_"}
        \cup {Digits[i] : i \in 1..10}

\* usize::to_string: the decimal digits of n, most significant first
RECURSIVE to_string(_)
to_string(n) ==
    IF n < 10 THEN <<Digits[n + 1]>>
    ELSE to_string(n \div 10) \o <<Digits[(n % 10) + 1]>>

\* ARG_RE = \{\{(\w*)\}\} tried at position i of s: the index of the last
\* character of the match, or 0 when the regex does not match at i.
RECURSIVE WordRunEnd(_, _)
WordRunEnd(s, j) ==
    IF j <= Len(s) /\ s[j] \in WordChars THEN WordRunEnd(s, j + 1) ELSE j

ARG_RE(s, i) ==
    IF i + 3 <= Len(s) /\ s[i] = "{" /\ s[i + 1] = "{"
    THEN LET j == WordRunEnd(s, i + 2)
         IN  IF j + 1 <= Len(s) /\ s[j] = "}" /\ s[j + 1] = "}"
             THEN j + 1
             ELSE 0
    ELSE 0

\* Regex::split: the pieces of s between the leftmost non-overlapping
\* matches, the piece after the last match included (possibly empty).
RECURSIVE SplitFrom(_, _, _)
SplitFrom(s, i, last) ==
    IF i > Len(s) THEN <<SubSeq(s, last, Len(s))>>
    ELSE LET e == ARG_RE(s, i)
         IN  IF e > 0
             THEN <<SubSeq(s, last, i - 1)>> \o SplitFrom(s, e + 1, e + 1)
             ELSE SplitFrom(s, i + 1, last)

split(s) == SplitFrom(s, 1, 1)

(***************************************************************************)
(* Data model: SectionValue, SectionMap, FileMap, LangMap.                 *)
(* A HashMap is a function on the set of its keys.                         *)
(***************************************************************************)
EmptyMap == [k \in {} |-> <<>>]

\* SectionValue::Text(String)
Text(s) == [kind |-> "Text", text |-> s, map |-> EmptyMap]

\* SectionValue::Map(HashMap<String, String>)
Map(m) == [kind |-> "Map", text |-> <<>>, map |-> m]

\* Option<T>: None is the empty sequence, Some(x) the sequence <<x>>
None == <<>>

Some(x) == <<x>>

\* the synthetic section holding "error" -> Text("error")
error_map == "error" :> Text(ErrorText)

\* the LangMap that Default builds when load_translation fails
DegradedLangMap == "error" :> ("error" :> error_map)

(***************************************************************************)
(* I18n::translation: the I18nPartial of a translation file, or the panic  *)
(* of one of the two expect() calls.                                       *)
(***************************************************************************)
NoPartial ==
    [status |-> "none", panic |-> "",
     file_traductions |-> EmptyMap, fallback_traduction |-> EmptyMap]

Panic(msg) ==
    [status |-> "panic", panic |-> msg,
     file_traductions |-> EmptyMap, fallback_traduction |-> EmptyMap]

I18nPartial(file, fallback) ==
    [status |-> "ok", panic |-> "",
     file_traductions |-> file, fallback_traduction |-> fallback]

\* translation with the error section, not the fallback language's section,
\* as the primary section of a file the current language lacks
translation_without_file_fallback(langs, cur, fb, translation_file) ==
    IF cur \notin DOMAIN langs THEN Panic("Language not found")
    ELSE IF fb \notin DOMAIN langs THEN Panic("Fallback language not found")
    ELSE LET fallback_section_file ==
                 IF translation_file \in DOMAIN langs[fb]
                 THEN langs[fb][translation_file]
                 ELSE error_map
             final_section_file ==
                 IF translation_file \in DOMAIN langs[cur]
                 THEN langs[cur][translation_file]
                 ELSE error_map
         IN  I18nPartial(final_section_file, fallback_section_file)

translation(langs, cur, fb, translation_file) ==
    IF cur \notin DOMAIN langs THEN Panic("Language not found")
    ELSE IF fb \notin DOMAIN langs THEN Panic("Fallback language not found")
    ELSE LET lang_traduction == langs[cur]
             fallback_lang_traduction == langs[fb]
             fallback_section_file ==
                 IF translation_file \in DOMAIN fallback_lang_traduction
                 THEN fallback_lang_traduction[translation_file]
                 ELSE error_map
             final_section_file ==
                 IF translation_file \in DOMAIN lang_traduction
                 THEN lang_traduction[translation_file]
                 ELSE fallback_section_file
         IN  I18nPartial(final_section_file, fallback_section_file)

(***************************************************************************)
(* Text helpers of I18nPartial.                                            *)
(***************************************************************************)
\* the closure get_text of t
get_text(map, translation_line) ==
    IF translation_line \in DOMAIN map /\ map[translation_line].kind = "Text"
    THEN Some(map[translation_line].text)
    ELSE None

\* the closure get_hash of t_with_plurial and t_with_gender
get_hash(map, translation_line) ==
    IF translation_line \in DOMAIN map /\ map[translation_line].kind = "Map"
    THEN Some(map[translation_line].map)
    ELSE None

\* hash.get(line).cloned() on an Option<HashMap>
hash_get(hash, line) ==
    IF Len(hash) > 0 /\ line \in DOMAIN hash[1] THEN Some(hash[1][line]) ELSE None

\* t without the or_else on the fallback section
t_primary_only(p, translation_line) ==
    LET first == get_text(p.file_traductions, translation_line)
    IN  IF Len(first) > 0 THEN first[1] ELSE ErrorMissingText

t(p, translation_line) ==
    LET first == get_text(p.file_traductions, translation_line)
        second == get_text(p.fallback_traduction, translation_line)
    IN  IF Len(first) > 0 THEN first[1]
        ELSE IF Len(second) > 0 THEN second[1]
        ELSE ErrorMissingText

\* get_line that turns to the fallback section only when the primary section
\* has no Map for the key
get_line_selected_set_only(p, translation_line, line) ==
    LET hash == IF Len(get_hash(p.file_traductions, translation_line)) > 0
                THEN get_hash(p.file_traductions, translation_line)
                ELSE get_hash(p.fallback_traduction, translation_line)
        found == hash_get(hash, line)
    IN  IF Len(found) > 0 THEN found[1] ELSE ErrorMissingText

\* the closure get_line of t_with_plurial and t_with_gender
get_line(p, translation_line, line) ==
    LET first == hash_get(get_hash(p.file_traductions, translation_line), line)
        second == hash_get(get_hash(p.fallback_traduction, translation_line), line)
    IN  IF Len(first) > 0 THEN first[1]
        ELSE IF Len(second) > 0 THEN second[1]
        ELSE ErrorMissingText

\* the loop of t_with_arg and of t_with_gender_and_arg, from the part of
\* index i (1-based here, i - 1 in the source) on
RECURSIVE line_rebuild(_, _, _)
line_rebuild(vec_line, arguments, i) ==
    IF i > Len(vec_line) THEN <<>>
    ELSE vec_line[i]
            \o (IF i - 1 < Len(arguments) THEN arguments[i] ELSE <<>>)
            \o line_rebuild(vec_line, arguments, i + 1)

t_with_arg(p, translation_line, arguments) ==
    LET original_line == t(p, translation_line)
        vec_line == split(original_line)
    IN  line_rebuild(vec_line, arguments, 1)

\* the match on count without its arm for 1
match_line_without_one(p, translation_line, count) ==
    CASE count = 0 -> get_line(p, translation_line, "none")
      [] OTHER -> get_line(p, translation_line, "many")

\* the match on count of t_with_plurial
match_line(p, translation_line, count) ==
    CASE count = 0 -> get_line(p, translation_line, "none")
      [] count = 1 -> get_line(p, translation_line, "one")
      [] OTHER -> get_line(p, translation_line, "many")

\* the loop of t_with_plurial: is_arg_inserted is FALSE at the first part only
RECURSIVE plurial_rebuild(_, _, _, _)
plurial_rebuild(vec_line, count, i, is_arg_inserted) ==
    IF i > Len(vec_line) THEN <<>>
    ELSE vec_line[i]
            \o (IF ~is_arg_inserted THEN to_string(count) ELSE <<>>)
            \o plurial_rebuild(vec_line, count, i + 1, TRUE)

t_with_plurial(p, translation_line, count) ==
    LET vec_line == split(match_line(p, translation_line, count))
    IN  plurial_rebuild(vec_line, count, 1, FALSE)

t_with_gender(p, translation_line, gender) ==
    get_line(p, translation_line, gender)

t_with_gender_and_arg(p, translation_line, gender, arguments) ==
    LET line == t_with_gender(p, translation_line, gender)
        vec_line == split(line)
    IN  line_rebuild(vec_line, arguments, 1)

(***************************************************************************)
(* What load_translation can return: the LangMaps of the model.            *)
(***************************************************************************)
Langs == {"en", "fr"}

\* "Hi {{name}}"
HiName == <<"H","i"," ","{","{","n","a","m","e","}","}">>

\* "Salut"
Salut == <<"S","a","l","u","t">>

\* "Salut a tous {{count}}"
SalutATous ==
    Salut \o <<" ","a"," ","t","o","u","s"," ","{","{","c","o","u","n","t","}","}">>

\* "no item"
NoItem == <<"n","o"," ","i","t","e","m">>

\* "{{count}} item"
OneItem == <<"{","{","c","o","u","n","t","}","}"," ","i","t","e","m">>

\* "{{count}} items of {{total}}"
ManyItems ==
    <<"{","{","c","o","u","n","t","}","}"," ","i","t","e","m","s"," ","o","f"," ",
      "{","{","t","o","t","a","l","}","}">>

\* "Mr {{}} {{name}}"
Mister == <<"M","r"," ","{","{","}","}"," ","{","{","n","a","m","e","}","}">>

\* "Mrs"
Missis == <<"M","r","s">>

\* the values a key of a section file can hold in the structural LangMaps
SectionValues ==
    { Text(HiName),
      Text(Salut),
      Map(("none" :> NoItem) @@ ("one" :> OneItem) @@ ("many" :> ManyItems)
            @@ ("masc" :> Mister) @@ ("fem" :> Missis)),
      Map(("one" :> Salut) @@ ("many" :> SalutATous) @@ ("masc" :> HiName)),
      Map(EmptyMap) }

\* the section files of the structural LangMaps: empty, or the key "greet"
SectionMaps == {EmptyMap} \cup {"greet" :> v : v \in SectionValues}

\* a language folder: no json file, or the file "ui"
FileMaps == {EmptyMap} \cup {"ui" :> m : m \in SectionMaps}

\* every LangMap over a subset of Langs
StructuralLangMaps ==
    UNION {[ls -> FileMaps] : ls \in SUBSET Langs}

\* the pieces the strings of the string LangMaps are built from:
\* "a", "{", "}", "{{}}", "{{a}}", "{{ }}"
Chunks ==
    { <<"a">>, <<"{">>, <<"}">>, <<"{","{","}","}">>,
      <<"{","{","a","}","}">>, <<"{","{"," ","}","}">> }

RECURSIVE Flatten(_)
Flatten(ss) == IF ss = <<>> THEN <<>> ELSE Head(ss) \o Flatten(Tail(ss))

Strings ==
    {Flatten(cs) : cs \in UNION {[1..n -> Chunks] : n \in 0..MaxChunks}}

\* one language "en" whose file "ui" holds the string as a Text and whose
\* file "menu" holds it in every bucket of a Map
StringLangMap(s) ==
    "en" :> ( ("ui" :> ("greet" :> Text(s)))
              @@ ("menu" :> ("greet" :> Map(("none" :> s) @@ ("one" :> s)
                                   @@ ("many" :> s) @@ ("masc" :> s)))) )

StringLangMaps == {StringLangMap(s) : s \in Strings}

LangMaps == StructuralLangMaps \cup StringLangMaps

(***************************************************************************)
(* Inputs of the operations.                                               *)
(***************************************************************************)
LocaleInputs == Langs \cup {"xx"}

FileInputs == {"ui", "menu"}

LineInputs == {"greet", "missing"}

GenderInputs == {"masc", "fem"}

CountInputs == (0..MaxCount) \cup {1000}

\* the argument lists are the prefixes of "X", "Y", "Sam", ...: the arguments
\* of one list are all different
ArgPool == << <<"X">>, <<"Y">>, <<"S","a","m">>, <<"Z">>, <<"W">> >>

ArgumentInputs == {SubSeq(ArgPool, 1, n) : n \in 0..MaxArgs}

\* the record of the last call: its name, its inputs and its result
Call(name, locale, file, line, gender, count, arguments, result) ==
    [name |-> name, locale |-> locale, translation_file |-> file,
     translation_line |-> line, gender |-> gender, count |-> count,
     arguments |-> arguments, result |-> result]

NoCall == Call("none", "", "", "", "", 0, <<>>, <<>>)

(***************************************************************************)
(* impl Default for I18n.                                                  *)
(***************************************************************************)
Init ==
    /\ \/ \* load_translation and get_folder_locale_list succeed
          /\ translations \in LangMaps
          /\ locale_folders_list = DOMAIN translations
       \/ \* load_translation fails: the folder is missing (no locale list
          \* either), or a file of it cannot be read or parsed
          /\ translations = DegradedLangMap
          /\ locale_folders_list \in SUBSET Langs
    /\ current_lang = "en"
    /\ fallback_lang = "en"
    /\ partial = NoPartial
    /\ op = NoCall

\* a panic of translation ends the program
Running == partial.status # "panic"

(***************************************************************************)
(* Language state.                                                         *)
(***************************************************************************)
\* set_lang that also rebuilds the view in use, for the file "ui", under the
\* new current language
set_lang_refreshing_view(locale) ==
    /\ Running
    /\ current_lang' =
           IF locale \notin locale_folders_list THEN current_lang ELSE locale
    /\ partial' =
           IF partial.status = "ok"
           THEN translation(translations, current_lang', fallback_lang, "ui")
           ELSE partial
    /\ op' = Call("set_lang", locale, "", "", "", 0, <<>>, <<>>)
    /\ UNCHANGED <<translations, fallback_lang, locale_folders_list>>

\* set_lang without the check against locale_folders_list
set_lang_unchecked(locale) ==
    /\ Running
    /\ current_lang' = locale
    /\ op' = Call("set_lang", locale, "", "", "", 0, <<>>, <<>>)
    /\ UNCHANGED <<translations, fallback_lang, locale_folders_list, partial>>

set_lang(locale) ==
    /\ Running
    /\ current_lang' =
           IF locale \notin locale_folders_list THEN current_lang ELSE locale
    /\ op' = Call("set_lang", locale, "", "", "", 0, <<>>, <<>>)
    /\ UNCHANGED <<translations, fallback_lang, locale_folders_list, partial>>

set_lang_i18n(locale) ==
    /\ Running
    /\ current_lang' =
           IF locale \notin locale_folders_list THEN current_lang ELSE locale
    /\ op' = Call("set_lang_i18n", locale, "", "", "", 0, <<>>, <<>>)
    /\ UNCHANGED <<translations, fallback_lang, locale_folders_list, partial>>

set_fallback_lang(locale) ==
    /\ Running
    /\ fallback_lang' =
           IF locale \notin locale_folders_list THEN fallback_lang ELSE locale
    /\ op' = Call("set_fallback_lang", locale, "", "", "", 0, <<>>, <<>>)
    /\ UNCHANGED <<translations, current_lang, locale_folders_list, partial>>

(***************************************************************************)
(* Calls of translation and of the text helpers on the last partial.       *)
(***************************************************************************)
CallTranslation(translation_file) ==
    /\ Running
    /\ partial' = translation(translations, current_lang, fallback_lang,
                              translation_file)
    /\ op' = Call("translation", "", translation_file, "", "", 0, <<>>, <<>>)
    /\ UNCHANGED <<translations, current_lang, fallback_lang, locale_folders_list>>

CallT(line) ==
    /\ partial.status = "ok"
    /\ op' = Call("t", "", "", line, "", 0, <<>>, t(partial, line))
    /\ UNCHANGED <<translations, current_lang, fallback_lang,
                   locale_folders_list, partial>>

CallTWithArg(line, arguments) ==
    /\ partial.status = "ok"
    /\ op' = Call("t_with_arg", "", "", line, "", 0, arguments,
                  t_with_arg(partial, line, arguments))
    /\ UNCHANGED <<translations, current_lang, fallback_lang,
                   locale_folders_list, partial>>

CallTWithPlurial(line, count) ==
    /\ partial.status = "ok"
    /\ op' = Call("t_with_plurial", "", "", line, "", count, <<>>,
                  t_with_plurial(partial, line, count))
    /\ UNCHANGED <<translations, current_lang, fallback_lang,
                   locale_folders_list, partial>>

CallTWithGender(line, gender) ==
    /\ partial.status = "ok"
    /\ op' = Call("t_with_gender", "", "", line, gender, 0, <<>>,
                  t_with_gender(partial, line, gender))
    /\ UNCHANGED <<translations, current_lang, fallback_lang,
                   locale_folders_list, partial>>

CallTWithGenderAndArg(line, gender, arguments) ==
    /\ partial.status = "ok"
    /\ op' = Call("t_with_gender_and_arg", "", "", line, gender, 0, arguments,
                  t_with_gender_and_arg(partial, line, gender, arguments))
    /\ UNCHANGED <<translations, current_lang, fallback_lang,
                   locale_folders_list, partial>>

Next ==
    \/ \E locale \in LocaleInputs : set_lang(locale)
    \/ \E locale \in LocaleInputs : set_lang_i18n(locale)
    \/ \E locale \in LocaleInputs : set_fallback_lang(locale)
    \/ \E file \in FileInputs : CallTranslation(file)
    \/ \E line \in LineInputs : CallT(line)
    \/ \E line \in LineInputs, arguments \in ArgumentInputs :
          CallTWithArg(line, arguments)
    \/ \E line \in LineInputs, count \in CountInputs :
          CallTWithPlurial(line, count)
    \/ \E line \in LineInputs, gender \in GenderInputs :
          CallTWithGender(line, gender)
    \/ \E line \in LineInputs, gender \in GenderInputs,
          arguments \in ArgumentInputs :
          CallTWithGenderAndArg(line, gender, arguments)

Spec == Init /\ [][Next]_vars

(***************************************************************************)
(* Vocabulary of the properties.                                           *)
(***************************************************************************)
LookupCalls ==
    {"t", "t_with_arg", "t_with_plurial", "t_with_gender", "t_with_gender_and_arg"}

SetCalls == {"set_lang", "set_lang_i18n", "set_fallback_lang"}

\* the key holds a Text / a VariantSet in the section
HasText(section, key) == key \in DOMAIN section /\ section[key].kind = "Text"

HasSet(section, key) == key \in DOMAIN section /\ section[key].kind = "Map"

\* the key holds a VariantSet with an entry for the tag in the section
HasVariant(section, key, tag) ==
    HasSet(section, key) /\ tag \in DOMAIN section[key].map

\* what a section alone holds for a key: its text, its variant, or nothing
TextOf(section, key) ==
    IF HasText(section, key) THEN section[key].text ELSE ErrorMissingText

VariantOf(section, key, tag) ==
    IF HasVariant(section, key, tag) THEN section[key].map[tag]
    ELSE ErrorMissingText

\* the plural bucket of a count
BucketOf(count) == IF count = 0 THEN "none" ELSE IF count = 1 THEN "one" ELSE "many"

\* the number of placeholders of a string
RECURSIVE Placeholders(_, _)
Placeholders(s, i) ==
    IF i > Len(s) THEN 0
    ELSE IF ARG_RE(s, i) > 0 THEN 1 + Placeholders(s, ARG_RE(s, i) + 1)
    ELSE Placeholders(s, i + 1)

\* s from position i on, its placeholders replaced from left to right by the
\* arguments in order, by nothing once the arguments are used up
RECURSIVE Substituted(_, _, _)
Substituted(s, i, arguments) ==
    IF i > Len(s) THEN <<>>
    ELSE IF ARG_RE(s, i) > 0
    THEN (IF arguments = <<>> THEN <<>> ELSE Head(arguments))
            \o Substituted(s, ARG_RE(s, i) + 1,
                           IF arguments = <<>> THEN <<>> ELSE Tail(arguments))
    ELSE <<s[i]>> \o Substituted(s, i + 1, arguments)

\* the current and the fallback language both have an entry in the Catalog
LanguagesLoaded ==
    current_lang \in DOMAIN translations /\ fallback_lang \in DOMAIN translations

(***************************************************************************)
(* C1: for a key absent from both sections of the view, every formatter    *)
(* operation returns exactly the sentinel "Error missing text".            *)
(* Stated as claimed; the code appends an argument or the count to it.     *)
(***************************************************************************)
C1_MissingKeyYieldsSentinel ==
    ( /\ op.name \in LookupCalls
      /\ op.translation_line \notin DOMAIN partial.file_traductions
      /\ op.translation_line \notin DOMAIN partial.fallback_traduction )
        => op.result = ErrorMissingText

(***************************************************************************)
(* C2: in every reachable state the current and the fallback language code *)
(* are keys of the Catalog.  Stated as claimed.                            *)
(***************************************************************************)
C2_LanguagesInCatalog ==
    /\ current_lang \in DOMAIN translations
    /\ fallback_lang \in DOMAIN translations

(***************************************************************************)
(* C3: view(topic) never crashes: it returns a section pair or a           *)
(* recoverable failure.  Stated as claimed; the code panics.               *)
(***************************************************************************)
C3_ViewNeverCrashes ==
    op.name = "translation" => partial.status # "panic"

(***************************************************************************)
(* C4: t_with_arg and t_with_gender_and_arg on a resolved string with N    *)
(* placeholders and M >= N arguments replace the i-th placeholder by the   *)
(* i-th argument and use no argument beyond the N-th.  Stated as claimed.  *)
(***************************************************************************)
C4_ExactlyNSubstitutions ==
    /\ ( /\ op.name = "t_with_arg"
         /\ \/ HasText(partial.file_traductions, op.translation_line)
            \/ HasText(partial.fallback_traduction, op.translation_line)
         /\ Len(op.arguments)
              >= Placeholders(t(partial, op.translation_line), 1) )
         => op.result =
              Substituted(t(partial, op.translation_line), 1, op.arguments)
    /\ ( /\ op.name = "t_with_gender_and_arg"
         /\ \/ HasVariant(partial.file_traductions, op.translation_line, op.gender)
            \/ HasVariant(partial.fallback_traduction, op.translation_line,
                          op.gender)
         /\ Len(op.arguments)
              >= Placeholders(
                    t_with_gender(partial, op.translation_line, op.gender), 1) )
         => op.result =
              Substituted(t_with_gender(partial, op.translation_line, op.gender),
                          1, op.arguments)

(***************************************************************************)
(* C5: plural returns the chosen variant with its first placeholder        *)
(* replaced by the decimal count and the later ones by nothing; a variant  *)
(* without placeholder is returned verbatim.  Stated as claimed.           *)
(***************************************************************************)
C5_CountAtFirstPlaceholderOnly ==
    ( /\ op.name = "t_with_plurial"
      /\ \/ HasVariant(partial.file_traductions, op.translation_line,
                       BucketOf(op.count))
         \/ HasVariant(partial.fallback_traduction, op.translation_line,
                       BucketOf(op.count)) )
        => op.result =
             Substituted(match_line(partial, op.translation_line, op.count), 1,
                         <<to_string(op.count)>>)

(***************************************************************************)
(* C6: set_lang, set_lang_i18n and set_fallback_lang with a code that is   *)
(* not in locale_folders_list leave current_lang, fallback_lang, the       *)
(* Catalog and the list unchanged.                                         *)
(***************************************************************************)
C6_UnknownLocaleIgnored ==
    [][ ( /\ op'.name \in SetCalls
          /\ op'.locale \notin locale_folders_list )
            => /\ current_lang' = current_lang
               /\ fallback_lang' = fallback_lang
               /\ translations' = translations
               /\ locale_folders_list' = locale_folders_list ]_vars

\* an unknown code was refused after the current language had been switched
C6_Witness ==
    /\ op.name \in SetCalls
    /\ op.locale \notin locale_folders_list
    /\ current_lang = "fr"
    /\ fallback_lang = "en"

(***************************************************************************)
(* C7: key-level fallback.  The view of a topic that both languages hold   *)
(* is the pair (section of the current language, section of the fallback   *)
(* language); and on every view a key that the primary section lacks, or   *)
(* holds with the other kind, resolves to what the fallback section holds  *)
(* for it, for t, t_with_plurial and t_with_gender alike.                  *)
(***************************************************************************)
C7_KeyLevelFallback ==
    LET P == partial.file_traductions
        F == partial.fallback_traduction
        key == op.translation_line
    IN  /\ ( /\ op.name = "translation"
             /\ LanguagesLoaded
             /\ op.translation_file \in DOMAIN translations[current_lang]
             /\ op.translation_file \in DOMAIN translations[fallback_lang] )
             => partial =
                  I18nPartial(translations[current_lang][op.translation_file],
                              translations[fallback_lang][op.translation_file])
        /\ (op.name = "t" /\ ~HasText(P, key) /\ HasText(F, key))
             => op.result = F[key].text
        /\ (op.name = "t_with_gender" /\ ~HasSet(P, key) /\ HasSet(F, key))
             => op.result = VariantOf(F, key, op.gender)
        /\ (op.name = "t_with_plurial" /\ ~HasSet(P, key) /\ HasSet(F, key))
             => op.result =
                  plurial_rebuild(split(VariantOf(F, key, BucketOf(op.count))),
                                  op.count, 1, FALSE)

\* the key is a Text in the primary section and a VariantSet in the fallback
\* section, and the gendered lookup returned the fallback's variant
C7_Witness ==
    /\ op.name = "t_with_gender"
    /\ HasText(partial.file_traductions, op.translation_line)
    /\ HasVariant(partial.fallback_traduction, op.translation_line, op.gender)
    /\ op.result = Mister

(***************************************************************************)
(* C8: file-level fallback.  For a topic that the fallback language holds  *)
(* and the current language does not, the primary section of the view is   *)
(* the fallback language's section, so every lookup on the view yields     *)
(* what that section holds for the key.                                    *)
(***************************************************************************)
C8_FileLevelFallback ==
    ( /\ op.name = "translation"
      /\ LanguagesLoaded
      /\ op.translation_file \notin DOMAIN translations[current_lang]
      /\ op.translation_file \in DOMAIN translations[fallback_lang] )
        => LET section == translations[fallback_lang][op.translation_file]
           IN  /\ partial.status = "ok"
               /\ partial.file_traductions = section
               /\ \A line \in LineInputs :
                     /\ t(partial, line) = TextOf(section, line)
                     /\ \A tag \in GenderInputs \cup {"none", "one", "many"} :
                           t_with_gender(partial, line, tag)
                               = VariantOf(section, line, tag)

\* the view of "ui" was built with current "fr", which has no "ui", and
\* fallback "en", whose "ui" holds the key
C8_Witness ==
    /\ op.name = "translation"
    /\ LanguagesLoaded
    /\ current_lang = "fr"
    /\ fallback_lang = "en"
    /\ op.translation_file \notin DOMAIN translations[current_lang]
    /\ op.translation_file \in DOMAIN translations[fallback_lang]
    /\ HasText(partial.file_traductions, "greet")

C10_BucketByCount ==
    LET line(bucket) ==
            plurial_rebuild(
                split(get_line(partial, op.translation_line, bucket)),
                op.count, 1, FALSE)
    IN  op.name = "t_with_plurial"
          => /\ op.count = 0 => op.result = line("none")
             /\ op.count = 1 => op.result = line("one")
             /\ op.count \notin {0, 1} => op.result = line("many")

\* count 1000 on a VariantSet whose three buckets differ
C10_Witness ==
    /\ op.name = "t_with_plurial"
    /\ op.count = 1000
    /\ HasVariant(partial.file_traductions, op.translation_line, "none")
    /\ HasVariant(partial.file_traductions, op.translation_line, "one")
    /\ HasVariant(partial.file_traductions, op.translation_line, "many")
    /\ partial.file_traductions[op.translation_line].map["many"] = ManyItems

\* the result of the lookup call c on the view p
LookupOn(p, c) ==
    CASE c.name = "t" -> t(p, c.translation_line)
      [] c.name = "t_with_arg" -> t_with_arg(p, c.translation_line, c.arguments)
      [] c.name = "t_with_plurial" ->
            t_with_plurial(p, c.translation_line, c.count)
      [] c.name = "t_with_gender" ->
            t_with_gender(p, c.translation_line, c.gender)
      [] c.name = "t_with_gender_and_arg" ->
            t_with_gender_and_arg(p, c.translation_line, c.gender, c.arguments)

(***************************************************************************)
(* C11: a view is a snapshot.  A call of set_lang, set_lang_i18n or        *)
(* set_fallback_lang leaves the view built before it as it is; a lookup    *)
(* leaves it as it is and returns what the view held before the call       *)
(* yields, whatever the languages are by then; and a view built while the  *)
(* current language holds the file has that language's section as its      *)
(* primary section.                                                        *)
(***************************************************************************)
C11_ViewIsSnapshot ==
    [][ /\ op'.name \in SetCalls => partial' = partial
        /\ op'.name \in LookupCalls
             => /\ partial' = partial
                /\ op'.result = LookupOn(partial, op')
        /\ ( /\ op'.name = "translation"
             /\ LanguagesLoaded
             /\ op'.translation_file \in DOMAIN translations[current_lang] )
             => partial'.file_traductions
                    = translations[current_lang][op'.translation_file] ]_vars

\* a language was switched after the view was built, both are "fr" by now,
\* and the lookup still returned the text the view holds, which no view
\* built now returns
C11_Witness ==
    /\ op.name = "t"
    /\ op.result = HiName
    /\ LanguagesLoaded
    /\ current_lang = "fr"
    /\ fallback_lang = "fr"
    /\ \A file \in FileInputs :
          t(translation(translations, current_lang, fallback_lang, file),
            op.translation_line) # op.result

====
